---- MODULE Spec2Model ----
(***************************************************************************)
(* Model of use-cases/retail_recommend/2_retail_recommend_train_tune.ipynb *)
(*                                                                         *)
(* Two pieces of the notebook carry local logic:                           *)
(*   - the model-package status polling loop (cell "Wait until model       *)
(*     package is completed"), and                                         *)
(*   - get_recommendations (candidate selection, feature rows, encoding,   *)
(*     endpoint call, ranking).                                            *)
(* The other cells drive the platform: training job, lineage artifacts and *)
(* associations, model package, approval, endpoint.  The cells run in      *)
(* order; an exception ends the execution; the notebook may be executed    *)
(* again, with the %store'd variables restored and the platform as the     *)
(* earlier executions left it.                                             *)
(*                                                                         *)
(* pandas / numpy / scikit-learn / scipy calls are modelled by what they   *)
(* compute.  Where a library leaves the order of equal keys unspecified    *)
(* (sort_values and argsort with the default quicksort, value_counts on    *)
(* equal counts) the model takes every order the library may produce.      *)
(***************************************************************************)
EXTENDS Integers, Sequences, FiniteSets, TLC

(***************************************************************************)
(* Bounds of the model                                                     *)
(***************************************************************************)
\* largest number of rows of the reference data set df
MaxRows == 3
\* largest n_ranks passed to get_recommendations
MaxRanks == 2
\* largest n_recommendations passed to get_recommendations
MaxRecs == 3
\* endpoint scores are drawn from 0..MaxScore
MaxScore == 1
\* number of executions of the notebook
MaxRuns == 2

(***************************************************************************)
(* Value domains of the reference data                                     *)
(***************************************************************************)
StockCodeOrder == <<"A", "B">>
CustomerOrder == <<"c1", "c2">>
CountryOrder == <<"FR", "UK">>
TokenOrder == <<"bag", "cake", "stand">>
\* a customer id that never occurs in df
UnknownCustomer == "c9"
\* what inverse_transform yields for a row whose one-hot block is all zero
None == "None"

\* a Description is modelled by the set of tokens TfidfVectorizer extracts
DescCake == {"cake", "stand"}
DescBag == {"cake", "bag"}
DescStand == {"stand"}

Range(s) == {s[i] : i \in 1..Len(s)}
Min(a, b) == IF a < b THEN a ELSE b

Row(sc, price, cust, country, desc) ==
    [StockCode |-> sc, UnitPrice |-> price, CustomerID |-> cust,
     Country |-> country, Description |-> desc]

\* the rows a data set may hold: item A is sold at two prices and under two
\* descriptions, customer c2 orders from two countries
Catalog ==
    << Row("A", 1, "c1", "UK", DescCake),
       Row("A", 1, "c2", "UK", DescBag),
       Row("A", 2, "c1", "UK", DescCake),
       Row("A", 2, "c2", "FR", DescCake),
       Row("B", 1, "c1", "UK", DescBag),
       Row("B", 1, "c2", "FR", DescStand) >>

\* data sets: rows of the catalog, repetitions allowed, listed in catalog
\* order (no step of the code depends on the row order except through the
\* order of equal keys, which the model leaves open)
DataFrames ==
    LET ix == UNION {[1..n -> 1..Len(Catalog)] : n \in 0..MaxRows}
    IN  {[i \in 1..Len(s) |-> Catalog[s[i]]] :
            s \in {t \in ix : \A i \in 1..(Len(t) - 1) : t[i] <= t[i + 1]}}

(***************************************************************************)
(* pandas / numpy helpers                                                  *)
(***************************************************************************)
\* all orders of the elements of the finite set S
Orderings(S) ==
    {p \in [1..Cardinality(S) -> S] : \A x \in S : \E i \in DOMAIN p : p[i] = x}

\* Series.value_counts(): number of entries of s equal to v
Count(s, v) == Cardinality({i \in 1..Len(s) : s[i] = v})

\* a slip: .index[-1], the least frequent value
LeastCommon(s) ==
    {v \in Range(s) : \A w \in Range(s) : Count(s, v) <= Count(s, w)}

\* the values value_counts() may list first: those of the largest count
\* (the order of equal counts is not specified); empty for an empty series,
\* where .index[0] raises IndexError
MostCommon(s) ==
    {v \in Range(s) : \A w \in Range(s) : Count(s, v) >= Count(s, w)}

\* the column col of the rows of d whose column key holds v
Column(d, col, key, v) ==
    LET keep == SelectSeq(d, LAMBDA r : r[key] = v)
    IN  [i \in 1..Len(keep) |-> keep[i][col]]

\* a slip: s[: -n : -1], which drops one entry
ReverseSliceOffByOne(s, n) ==
    LET len == Len(s)
        stop == IF n = 0 THEN 0 ELSE IF -n < -len THEN -1 ELSE len - n
    IN  [k \in 1..(len - 1 - stop) |-> s[len - k + 1]]

\* s[: -n - 1 : -1] of Python, for n >= 0: start is the last element, stop
\* is -n-1, clipped to "before the first element" when it is below -len(s)
ReverseSlice(s, n) ==
    LET len == Len(s)
        stop == IF -n - 1 < -len THEN -1 ELSE len - n - 1
    IN  [k \in 1..(len - 1 - stop) |-> s[len - k + 1]]

(***************************************************************************)
(* get_recommendations: candidate selection                                *)
(***************************************************************************)
\* df.groupby(["StockCode", "UnitPrice"]): the group keys
GroupKeys(d) == {<<d[i].StockCode, d[i].UnitPrice>> : i \in 1..Len(d)}

\* .nunique()["CustomerID"] of one group
NUnique(d, key) ==
    Cardinality({d[i].CustomerID : i \in {j \in 1..Len(d) :
                    <<d[j].StockCode, d[j].UnitPrice>> = key}})

\* .sort_values(ascending=False).reset_index(): the groups by descending
\* number of distinct customers, equal counts in any order
PopularItems(d) ==
    {p \in Orderings(GroupKeys(d)) :
        \A i, j \in DOMAIN p : i < j => NUnique(d, p[i]) >= NUnique(d, p[j])}

\* a slip: .iloc[:n + 1]
ILocHeadOffByOne(s, n) == SubSeq(s, 1, Min(n + 1, Len(s)))

\* .iloc[:n] for n >= 0
ILocHead(s, n) == SubSeq(s, 1, Min(n, Len(s)))

(***************************************************************************)
(* get_recommendations: feature rows                                       *)
(***************************************************************************)
StockCodesOf(d) == {d[i].StockCode : i \in 1..Len(d)}

\* df.groupby("StockCode").agg(lambda x: x.value_counts().index[0])
\*   ["Description"]: the maps the aggregation may produce
ItemMaps(d) ==
    {m \in [StockCodesOf(d) -> {d[i].Description : i \in 1..Len(d)}] :
        \A sc \in StockCodesOf(d) :
            m[sc] \in MostCommon(Column(d, "Description", "StockCode", sc))}

\* df.loc[df["CustomerID"] == customer_id]["Country"].value_counts(): the
\* values .index[0] may yield
CountryChoices(d, cust) ==
    MostCommon(Column(d, "Country", "CustomerID", cust))

\* pd.DataFrame(data): one row per entry of top_n_items, the scalars
\* customer_id and country broadcast
BuildInference(items, prices, m, cust, country) ==
    [i \in 1..Len(items) |->
        Row(items[i], prices[i], cust, country, m[items[i]])]

(***************************************************************************)
(* get_recommendations: encoding                                           *)
(***************************************************************************)
\* OneHotEncoder.fit: the sorted categories of one column of the fit data
Categories(d, col, order) ==
    SelectSeq(order, LAMBDA v : \E i \in 1..Len(d) : d[i][col] = v)

\* OneHotEncoder(handle_unknown="ignore").transform of one value: a value
\* outside the categories gives an all-zero block
OneHot(cats, v) == [k \in 1..Len(cats) |-> IF cats[k] = v THEN 1 ELSE 0]

\* a slip: the encoder fit on the candidate rows
EncoderFitOnInference(d, inference) == inference

\* the data the encoder is fit on: enc.fit(df[onehot_cols])
EncoderFitData(d, inference) == d

\* enc.transform(df_inference[onehot_cols]), one row
OneHotRow(fit, r) ==
    OneHot(Categories(fit, "StockCode", StockCodeOrder), r.StockCode)
    \o OneHot(Categories(fit, "CustomerID", CustomerOrder), r.CustomerID)
    \o OneHot(Categories(fit, "Country", CountryOrder), r.Country)

\* TfidfVectorizer(min_df=2).fit(df["Description"].unique()): the terms
\* that occur in at least min_df of the distinct descriptions, sorted
MinDf == 2
Vocabulary(d) ==
    LET docs == {d[i].Description : i \in 1..Len(d)}
    IN  SelectSeq(TokenOrder,
                  LAMBDA t : Cardinality({doc \in docs : t \in doc}) >= MinDf)

\* vectorizer.transform of one description: a non-zero weight (written 1)
\* exactly for the vocabulary terms the description contains
TfidfRow(vocab, desc) ==
    [k \in 1..Len(vocab) |-> IF vocab[k] \in desc THEN 1 ELSE 0]

\* hstack([onehot_output, tfidf_output, unit_price]), one row
FeatureRow(fit, vocab, r) ==
    OneHotRow(fit, r) \o TfidfRow(vocab, r.Description) \o <<r.UnitPrice>>

\* enc.inverse_transform(onehot_output)[:, 0]: the StockCode a one-hot
\* row stands for, None when its StockCode block is all zero
DecodeItem(fit, oh) ==
    LET cats == Categories(fit, "StockCode", StockCodeOrder)
        hit == {k \in 1..Len(cats) : oh[k] = 1}
    IN  IF hit = {} THEN None ELSE cats[CHOOSE k \in hit : TRUE]

(***************************************************************************)
(* get_recommendations: ranking                                            *)
(***************************************************************************)
\* a slip: the row numbers by descending score
ArgSortsDescending(p) ==
    {ia \in Orderings(DOMAIN p) :
        \A i, j \in DOMAIN ia : i < j => p[ia[i]] >= p[ia[j]]}

\* np.array(preds).argsort(): the row numbers by ascending score, equal
\* scores in any order
ArgSorts(p) ==
    {ia \in Orderings(DOMAIN p) :
        \A i, j \in DOMAIN ia : i < j => p[ia[i]] <= p[ia[j]]}

\* np.take_along_axis(items, index_array, axis=0)[: -n - 1 : -1]
TopRecs(items, ia, n) ==
    ReverseSlice([k \in 1..Len(ia) |-> items[ia[k]]], n)

(***************************************************************************)
(* Dimensionality of the training matrix                                   *)
(***************************************************************************)
\* X_train.shape[1]: the first notebook of the use case encodes the same
\* reference data as one-hot blocks, tf-idf block and one price column
TrainDims(d) ==
    Len(Categories(d, "StockCode", StockCodeOrder))
    + Len(Categories(d, "CustomerID", CustomerOrder))
    + Len(Categories(d, "Country", CountryOrder))
    + Len(Vocabulary(d)) + 1

\* the data the first notebook wrote together with X_train: it has rows,
\* and the tf-idf fit on its descriptions succeeded
TrainingEncodable(d) == Len(d) > 0 /\ Len(Vocabulary(d)) > 0

(***************************************************************************)
(* State                                                                   *)
(***************************************************************************)
VARIABLES
    run,               \* number of the running execution of the notebook
    cell,              \* the cell the execution has reached
    training_job_name, \* notebook variable, 0 when not in locals()
    mpg_name,          \* notebook variable, 0 when not in locals()
    store,             \* what %store holds, 0 for a name it does not hold
    fm_job,            \* the training job the estimator fm is attached to
    jobs_submitted,    \* training jobs the platform was asked to run
    job_status,        \* TrainingJobStatus of the job of training_job_name
    artifacts,         \* source URIs that have a lineage artifact
    created,           \* Artifact.create calls made, per source URI
    associations,      \* artifacts associated with the trial component
    assoc_i,           \* position of the association loop in artifact_list
    assoc_attempts,    \* Association.create calls of this execution
    packages,          \* model packages of the group mpg_name
    mp_arn,            \* mp_response["ModelPackageArn"], 0 when unset
    approved_arn,      \* ARN passed to update_model_package, 0 when unset
    endpoint,          \* status of the endpoint fm.deploy creates
    svc_status,        \* ModelPackageStatus of the package mp_arn
    mp_status,         \* the notebook's variable mp_status
    mp_pc,             \* position in the polling cell
    df,                \* the reference data set read from the csv file
    input_dims,        \* X_train.shape[1], the feature_dim of the model
    pc,                \* position in get_recommendations
    raised_at,         \* the step of get_recommendations that raised
    customer_id,       \* arguments of the running call
    n_recommendations,
    n_ranks,
    top_n_items,       \* locals of the running call
    top_n_prices,
    item_map,
    df_inference,
    onehot_output,
    X_inference,
    preds,
    index_array,
    recommendations

nameVars == <<training_job_name, mpg_name, store, fm_job>>
jobVars == <<jobs_submitted, job_status>>
lineageVars == <<artifacts, created, associations, assoc_i, assoc_attempts>>
packageVars == <<packages, mp_arn, approved_arn>>
flowVars == <<run, cell, nameVars, jobVars, lineageVars, packageVars,
              endpoint>>
pollVars == <<svc_status, mp_status, mp_pc>>
dataVars == <<df, input_dims>>
argVars == <<customer_id, n_recommendations, n_ranks>>
selVars == <<top_n_items, top_n_prices>>
rowVars == <<item_map, df_inference>>
encVars == <<onehot_output, X_inference>>
rankVars == <<preds, index_array, recommendations>>
callVars == <<pc, raised_at, argVars, selVars, rowVars, encVars, rankVars>>
vars == <<flowVars, pollVars, dataVars, callVars>>

(***************************************************************************)
(* Training job                                                            *)
(***************************************************************************)
\* if 'training_job_name' not in locals()
NeedsTraining(name) == name = 0

\* a slip: fm.fit(..., wait=False)
FitReturnsAtOnce(status) == TRUE

\* fm.fit blocks until the training job has ended
FitReturns(status) == status = "Completed"

\* fm.fit(...): the training job is submitted
TrainSubmit ==
    /\ cell = "train"
    /\ NeedsTraining(training_job_name)
    /\ jobs_submitted' = jobs_submitted + 1
    /\ job_status' = "InProgress"
    /\ cell' = "fit"
    /\ UNCHANGED <<run, nameVars, lineageVars, packageVars, endpoint,
                   pollVars, dataVars, callVars>>

\* the platform finishes the training job (a job that fails makes fm.fit
\* raise before a name is stored; such an execution is not followed)
JobAdvance ==
    /\ job_status = "InProgress"
    /\ job_status' = "Completed"
    /\ UNCHANGED <<run, cell, nameVars, jobs_submitted, lineageVars,
                   packageVars, endpoint, pollVars, dataVars, callVars>>

\* fm.fit returns; training_job_name = fm.latest_training_job.job_name;
\* %store training_job_name
TrainDone ==
    /\ cell = "fit"
    /\ FitReturns(job_status)
    /\ training_job_name' = jobs_submitted
    /\ fm_job' = jobs_submitted
    /\ store' = [store EXCEPT !.training_job_name = jobs_submitted]
    /\ cell' = "describe_job"
    /\ UNCHANGED <<run, mpg_name, jobVars, lineageVars, packageVars,
                   endpoint, pollVars, dataVars, callVars>>

\* else: print('Using previous training job ...')
TrainSkip ==
    /\ cell = "train"
    /\ ~NeedsTraining(training_job_name)
    /\ cell' = "describe_job"
    /\ UNCHANGED <<run, nameVars, jobVars, lineageVars, packageVars,
                   endpoint, pollVars, dataVars, callVars>>

\* training_job_info = describe_training_job(TrainingJobName=...)
DescribeJob ==
    /\ cell = "describe_job"
    /\ cell' = "data_artifact"
    /\ UNCHANGED <<run, nameVars, jobVars, lineageVars, packageVars,
                   endpoint, pollVars, dataVars, callVars>>

(***************************************************************************)
(* Lineage artifacts and associations                                      *)
(***************************************************************************)
\* artifact_list: the training data artifact, then the model artifact
ArtifactList == <<"TrainingData", "TrainedModel">>

\* a slip: the check "if matching_artifacts" left out
NoMatchingArtifacts(existing, uri) == FALSE

\* matching_artifacts = list(Artifact.list(source_uri=...)); the test
\* "if matching_artifacts"
MatchingArtifacts(existing, uri) == uri \in existing

\* the artifact cell of one source URI: the listed artifact is used, or one
\* is created when none is listed
ArtifactCell(uri) ==
    IF MatchingArtifacts(artifacts, uri)
    THEN UNCHANGED <<artifacts, created>>
    ELSE /\ artifacts' = artifacts \cup {uri}
         /\ created' = [created EXCEPT ![uri] = @ + 1]

DataArtifact ==
    /\ cell = "data_artifact"
    /\ ArtifactCell("TrainingData")
    /\ cell' = "model_artifact"
    /\ UNCHANGED <<run, nameVars, jobVars, associations, assoc_i,
                   assoc_attempts, packageVars, endpoint, pollVars, dataVars,
                   callVars>>

ModelArtifact ==
    /\ cell = "model_artifact"
    /\ ArtifactCell("TrainedModel")
    /\ cell' = "associate"
    /\ assoc_i' = 1
    /\ UNCHANGED <<run, nameVars, jobVars, associations, assoc_attempts,
                   packageVars, endpoint, pollVars, dataVars, callVars>>

\* a slip: no try/except around Association.create
AssociationFailureLeaves(i) == "failed"

\* except: print("Association already exists ...") and the loop goes on
AssociationFailureCaught(i) == IF i < Len(ArtifactList) THEN "associate" ELSE "mpg"

\* one iteration of "for art, assoc in artifact_list": Association.create
\* raises when the association exists already
Associate ==
    /\ cell = "associate"
    /\ LET art == ArtifactList[assoc_i] IN
       /\ assoc_attempts' = [assoc_attempts EXCEPT ![art] = @ + 1]
       /\ IF art \in associations
          THEN /\ cell' = AssociationFailureCaught(assoc_i)
               /\ UNCHANGED associations
          ELSE /\ associations' = associations \cup {art}
               /\ cell' = IF assoc_i < Len(ArtifactList) THEN "associate"
                                                         ELSE "mpg"
    /\ assoc_i' = assoc_i + 1
    /\ UNCHANGED <<run, nameVars, jobVars, artifacts, created, packageVars,
                   endpoint, pollVars, dataVars, callVars>>

(***************************************************************************)
(* Model package                                                           *)
(***************************************************************************)
\* if 'mpg_name' not in locals(): mpg_name = ...; %store mpg_name
PackageGroupName ==
    /\ cell = "mpg"
    /\ IF mpg_name = 0
       THEN /\ mpg_name' = run
            /\ store' = [store EXCEPT !.mpg_name = run]
       ELSE UNCHANGED <<mpg_name, store>>
    /\ cell' = "create_mp"
    /\ UNCHANGED <<run, training_job_name, fm_job, jobVars, lineageVars,
                   packageVars, endpoint, pollVars, dataVars, callVars>>

\* mp_response = create_model_package(**mp_input_dict): a new package of
\* the group, status Pending
CreateModelPackage ==
    /\ cell = "create_mp"
    /\ mp_arn' = run
    /\ packages' = packages \cup {run}
    /\ svc_status' = "Pending"
    /\ mp_pc' = "describe"
    /\ cell' = "poll"
    /\ UNCHANGED <<run, nameVars, jobVars, lineageVars, approved_arn,
                   endpoint, mp_status, dataVars, callVars>>

(***************************************************************************)
(* Model package status polling loop                                       *)
(***************************************************************************)
TerminalStatuses == {"Completed", "Failed"}

\* a slip: while mp_status != "Completed"
KeepPollingUntilCompleted(status) == status # "Completed"

\* while mp_status not in ["Completed", "Failed"]
KeepPolling(status) == status \notin TerminalStatuses

\* the registry moves a package Pending -> InProgress -> Completed | Failed
ServiceAdvance ==
    /\ \/ svc_status = "Pending" /\ svc_status' = "InProgress"
       \/ svc_status = "InProgress" /\ svc_status' \in TerminalStatuses
    /\ UNCHANGED <<flowVars, mp_status, mp_pc, dataVars, callVars>>

\* mp_info = describe_model_package(...); mp_status = mp_info[...]
PollFirst ==
    /\ mp_pc = "describe"
    /\ mp_status' = svc_status
    /\ mp_pc' = "while"
    /\ UNCHANGED <<flowVars, svc_status, dataVars, callVars>>

\* one iteration of the loop body: sleep, describe again
PollLoopBody ==
    /\ mp_pc = "while"
    /\ KeepPolling(mp_status)
    /\ mp_status' = svc_status
    /\ UNCHANGED <<flowVars, svc_status, mp_pc, dataVars, callVars>>

\* the loop condition is false: fall through to the final print
PollExit ==
    /\ mp_pc = "while"
    /\ ~KeepPolling(mp_status)
    /\ mp_pc' = "done"
    /\ UNCHANGED <<flowVars, svc_status, mp_status, dataVars, callVars>>

(***************************************************************************)
(* Approval and deployment                                                 *)
(***************************************************************************)
\* model_package = list_model_packages(ModelPackageGroupName=mpg_name)
\* ["ModelPackageSummaryList"][0]: the call names no sort order, the first
\* entry is any package of the group; update_model_package(... "Approved")
Approve ==
    /\ cell = "poll"
    /\ mp_pc = "done"
    /\ \E first \in packages : approved_arn' = first
    /\ cell' = "deploy"
    /\ UNCHANGED <<run, nameVars, jobVars, lineageVars, packages, mp_arn,
                   endpoint, pollVars, dataVars, callVars>>

\* fm_predictor = fm.deploy(...): raises when fm has no training job,
\* creates the endpoint otherwise
DeploySubmit ==
    /\ cell = "deploy"
    /\ IF fm_job = 0
       THEN /\ cell' = "failed"
            /\ UNCHANGED endpoint
       ELSE /\ endpoint' = "Creating"
            /\ cell' = "deploy_wait"
    /\ UNCHANGED <<run, nameVars, jobVars, lineageVars, packageVars,
                   pollVars, dataVars, callVars>>

\* the platform brings the endpoint into service
EndpointAdvance ==
    /\ endpoint = "Creating"
    /\ endpoint' = "InService"
    /\ UNCHANGED <<run, cell, nameVars, jobVars, lineageVars, packageVars,
                   pollVars, dataVars, callVars>>

\* fm.deploy returns the predictor once the endpoint is in service
DeployDone ==
    /\ cell = "deploy_wait"
    /\ endpoint = "InService"
    /\ cell' = "recs"
    /\ UNCHANGED <<run, nameVars, jobVars, lineageVars, packageVars,
                   endpoint, pollVars, dataVars, callVars>>

(***************************************************************************)
(* Reading the reference data                                              *)
(***************************************************************************)
\* df = pd.read_csv("data/online_retail_preprocessed.csv"); X_train and
\* input_dims were computed from the same data
ReadCsv ==
    /\ cell = "recs"
    /\ pc = "nodata"
    /\ df' \in {d \in DataFrames : TrainingEncodable(d)}
    /\ input_dims' = TrainDims(df')
    /\ pc' = "idle"
    /\ UNCHANGED <<flowVars, pollVars, raised_at, argVars, selVars, rowVars,
                   encVars, rankVars>>

(***************************************************************************)
(* get_recommendations(df, customer_id, n_recommendations, n_ranks)        *)
(***************************************************************************)
NoLocals ==
    /\ item_map' = <<>>
    /\ df_inference' = <<>>
    /\ onehot_output' = <<>>
    /\ X_inference' = <<>>
    /\ preds' = <<>>
    /\ index_array' = <<>>
    /\ recommendations' = <<>>

\* the call and its candidate-selection step
SelectCandidates ==
    /\ pc = "idle"
    /\ \E cust \in Range(CustomerOrder) \cup {UnknownCustomer},
          nrec \in 0..MaxRecs, nranks \in 0..MaxRanks :
          /\ customer_id' = cust
          /\ n_recommendations' = nrec
          /\ n_ranks' = nranks
          /\ \E popular_items \in PopularItems(df) :
                LET top == ILocHead(popular_items, nranks) IN
                /\ top_n_items' = [i \in 1..Len(top) |-> top[i][1]]
                /\ top_n_prices' = [i \in 1..Len(top) |-> top[i][2]]
    /\ pc' = "selected"
    /\ raised_at' = "none"
    /\ NoLocals
    /\ UNCHANGED <<flowVars, pollVars, dataVars>>

\* item_map, the customer's country and df_inference; .index[0] raises
\* IndexError when the customer has no row in df
BuildRows ==
    /\ pc = "selected"
    /\ IF CountryChoices(df, customer_id) = {}
       THEN /\ pc' = "raised"
            /\ raised_at' = "country"
            /\ UNCHANGED rowVars
       ELSE /\ \E m \in ItemMaps(df), country \in CountryChoices(df, customer_id) :
                  /\ item_map' = m
                  /\ df_inference' =
                        BuildInference(top_n_items, top_n_prices, m,
                                       customer_id, country)
            /\ pc' = "built"
            /\ UNCHANGED raised_at
    /\ UNCHANGED <<flowVars, pollVars, dataVars, argVars, selVars, encVars,
                   rankVars>>

\* one-hot and tf-idf encoding and hstack.  enc.transform and csr_matrix
\* raise ValueError on zero rows; TfidfVectorizer.fit raises ValueError
\* when no term reaches min_df
Encode ==
    /\ pc = "built"
    /\ IF Len(df_inference) = 0 \/ Len(Vocabulary(df)) = 0
       THEN /\ pc' = "raised"
            /\ raised_at' = IF Len(df_inference) = 0 THEN "transform"
                                                     ELSE "tfidf_fit"
            /\ UNCHANGED encVars
       ELSE LET fit == EncoderFitData(df, df_inference)
                vocab == Vocabulary(df)
            IN  /\ onehot_output' =
                      [i \in 1..Len(df_inference) |->
                          OneHotRow(fit, df_inference[i])]
                /\ X_inference' =
                      [i \in 1..Len(df_inference) |->
                          FeatureRow(fit, vocab, df_inference[i])]
                /\ pc' = "encoded"
                /\ UNCHANGED raised_at
    /\ UNCHANGED <<flowVars, pollVars, dataVars, argVars, selVars, rowVars,
                   rankVars>>

\* the endpoint scores every row; the rows are ranked and the list returned
PredictAndRank ==
    /\ pc = "encoded"
    /\ \E scores \in [1..Len(X_inference) -> 0..MaxScore] :
          \E ia \in ArgSorts(scores) :
             LET items == [i \in 1..Len(onehot_output) |->
                              DecodeItem(EncoderFitData(df, df_inference),
                                         onehot_output[i])]
                 top_recs == TopRecs(items, ia, n_recommendations)
             IN  /\ preds' = scores
                 /\ index_array' = ia
                 /\ recommendations' =
                       [k \in 1..Len(top_recs) |->
                           <<top_recs[k], item_map[top_recs[k]]>>]
    /\ pc' = "returned"
    /\ UNCHANGED <<flowVars, pollVars, dataVars, raised_at, argVars, selVars,
                   rowVars, encVars>>

\* the call is over (the list was returned or the exception reached the
\* cell): its arguments and locals are gone, another call may follow
EndCall ==
    /\ pc \in {"returned", "raised"}
    /\ pc' = "idle"
    /\ raised_at' = "none"
    /\ customer_id' = "unset"
    /\ n_recommendations' = 0
    /\ n_ranks' = 0
    /\ top_n_items' = <<>>
    /\ top_n_prices' = <<>>
    /\ NoLocals
    /\ UNCHANGED <<flowVars, pollVars, dataVars>>

(***************************************************************************)
(* Executing the notebook again                                            *)
(***************************************************************************)
\* what %store holds before the first execution
EmptyStore == [training_job_name |-> 0, mpg_name |-> 0]

NoAttempts == [art \in {"TrainingData", "TrainedModel"} |-> 0]

\* the execution is over (its last cell ran, or an exception stopped it);
\* a new kernel runs the cells from the top: %store -r restores the stored
\* names, every other variable is gone, fm is built anew, the platform keeps
\* what the earlier executions made
Restart ==
    /\ cell \in {"recs", "failed"}
    /\ pc \in {"nodata", "idle"}
    /\ run < MaxRuns
    /\ run' = run + 1
    /\ cell' = "train"
    /\ training_job_name' = store.training_job_name
    /\ mpg_name' = store.mpg_name
    /\ fm_job' = 0
    /\ assoc_i' = 0
    /\ assoc_attempts' = NoAttempts
    /\ mp_arn' = 0
    /\ approved_arn' = 0
    /\ svc_status' = "none"
    /\ mp_status' = "unset"
    /\ mp_pc' = "idle"
    /\ df' = <<>>
    /\ input_dims' = 0
    /\ pc' = "nodata"
    /\ UNCHANGED <<store, jobVars, artifacts, created, associations,
                   packages, endpoint, raised_at, argVars, selVars, rowVars,
                   encVars, rankVars>>

Init ==
    /\ run = 1
    /\ cell = "train"
    /\ training_job_name = 0
    /\ mpg_name = 0
    /\ store = EmptyStore
    /\ fm_job = 0
    /\ jobs_submitted = 0
    /\ job_status = "none"
    /\ artifacts = {}
    /\ created = NoAttempts
    /\ associations \in SUBSET {"TrainingData", "TrainedModel"}
    /\ assoc_i = 0
    /\ assoc_attempts = NoAttempts
    /\ packages = {}
    /\ mp_arn = 0
    /\ approved_arn = 0
    /\ endpoint = "none"
    /\ svc_status = "none"
    /\ mp_status = "unset"
    /\ mp_pc = "idle"
    /\ df = <<>>
    /\ input_dims = 0
    /\ pc = "nodata"
    /\ raised_at = "none"
    /\ customer_id = "unset"
    /\ n_recommendations = 0
    /\ n_ranks = 0
    /\ top_n_items = <<>>
    /\ top_n_prices = <<>>
    /\ item_map = <<>>
    /\ df_inference = <<>>
    /\ onehot_output = <<>>
    /\ X_inference = <<>>
    /\ preds = <<>>
    /\ index_array = <<>>
    /\ recommendations = <<>>

Next ==
    \/ TrainSubmit
    \/ JobAdvance
    \/ TrainDone
    \/ TrainSkip
    \/ DescribeJob
    \/ DataArtifact
    \/ ModelArtifact
    \/ Associate
    \/ PackageGroupName
    \/ CreateModelPackage
    \/ Approve
    \/ DeploySubmit
    \/ EndpointAdvance
    \/ DeployDone
    \/ Restart
    \/ ServiceAdvance
    \/ PollFirst
    \/ PollLoopBody
    \/ PollExit
    \/ ReadCsv
    \/ SelectCandidates
    \/ BuildRows
    \/ Encode
    \/ PredictAndRank
    \/ EndCall

Spec == Init /\ [][Next]_vars

\* the kernel runs the statements of the polling cell one after the other;
\* nothing is assumed of the registry
LiveSpec ==
    /\ Spec
    /\ WF_vars(PollFirst)
    /\ WF_vars(PollLoopBody)
    /\ WF_vars(PollExit)

(***************************************************************************)
(* Properties                                                              *)
(***************************************************************************)
InCall == pc \in {"selected", "built", "encoded", "returned", "raised"}

\* number of rows of d whose column k1 holds v1 and whose column k2 holds v2
RowsWhere(d, k1, v1, k2, v2) ==
    Cardinality({i \in 1..Len(d) : d[i][k1] = v1 /\ d[i][k2] = v2})

\* distinct customers of a StockCode over the whole of d
ItemCustomers(d, sc) ==
    {d[i].CustomerID : i \in {j \in 1..Len(d) : d[j].StockCode = sc}}

\* the candidate row behind position k of the returned list
RankedRow(k) == index_array[Len(index_array) - k + 1]

\* C1: for n_recommendations >= 1 the returned list is ordered by
\* descending score: position k holds the item of a candidate row, the
\* scores of these rows do not increase along the list, and the first
\* entry has the maximum score.
C1_SortedByScore ==
    (pc = "returned" /\ n_recommendations >= 1) =>
        /\ Len(recommendations) >= 1
        /\ \A k \in 1..Len(recommendations) :
              recommendations[k][1] = df_inference[RankedRow(k)].StockCode
        /\ \A i, j \in 1..Len(recommendations) :
              i < j => preds[RankedRow(i)] >= preds[RankedRow(j)]
        /\ \A r \in 1..Len(preds) : preds[RankedRow(1)] >= preds[r]

\* a returned list of two or more entries whose scores differ, the better
\* candidate being the later row
C1_Witness ==
    /\ pc = "returned"
    /\ Len(recommendations) >= 2
    /\ preds[1] < preds[2]
    /\ RankedRow(1) # 1

\* C2 as stated: top_n_items and top_n_prices each have exactly n_ranks
\* entries.
C2_ExactlyNRanks ==
    pc = "selected" => Len(top_n_items) = n_ranks /\ Len(top_n_prices) = n_ranks

\* C2 amended: top_n_items and top_n_prices each have exactly
\* min(n_ranks, number of distinct (StockCode, UnitPrice) pairs of df)
\* entries.
C2_AtMostNRanks ==
    pc = "selected" =>
        LET k == Min(n_ranks, Cardinality(GroupKeys(df)))
        IN  Len(top_n_items) = k /\ Len(top_n_prices) = k

\* more candidates requested than df has (StockCode, UnitPrice) pairs
C2_Witness ==
    /\ pc = "selected"
    /\ Cardinality(GroupKeys(df)) >= 1
    /\ n_ranks > Cardinality(GroupKeys(df))
    /\ Len(top_n_items) = Cardinality(GroupKeys(df))

\* C3 as stated, where df has at least n_ranks items: the pool holds
\* n_ranks pairwise distinct StockCodes, and every item of the pool has at
\* least as many distinct customers in df as every item left out.
C3_PoolIsTopKItems ==
    (pc = "selected" /\ n_ranks <= Cardinality(StockCodesOf(df))) =>
        /\ Len(top_n_items) = n_ranks
        /\ \A i, j \in 1..Len(top_n_items) :
              i # j => top_n_items[i] # top_n_items[j]
        /\ \A inside \in Range(top_n_items) :
              \A outside \in StockCodesOf(df) \ Range(top_n_items) :
                 Cardinality(ItemCustomers(df, inside))
                    >= Cardinality(ItemCustomers(df, outside))

\* C4: the returned list has min(n_recommendations, number of candidate
\* rows) entries.
C4_Truncated ==
    pc = "returned" =>
        Len(recommendations) = Min(n_recommendations, Len(df_inference))

\* more recommendations requested than there are candidate rows
C4_Witness ==
    /\ pc = "returned"
    /\ Len(df_inference) >= 2
    /\ n_recommendations > Len(df_inference)
    /\ Len(recommendations) = Len(df_inference)

\* C5 as stated, for a customer who has rows in df: with an empty candidate
\* pool the call does not raise, and the list it returns is empty.
C5_EmptyPoolReturnsEmpty ==
    (InCall /\ Len(top_n_items) = 0
        /\ RowsWhere(df, "CustomerID", customer_id, "CustomerID", customer_id) > 0) =>
        /\ pc # "raised"
        /\ pc = "returned" => recommendations = <<>>

\* C6 as stated, for a pool that is not empty: a customer_id that does not
\* occur in df does not make the call raise.
C6_UnknownCustomerDoesNotRaise ==
    (InCall /\ Len(top_n_items) > 0
        /\ RowsWhere(df, "CustomerID", customer_id, "CustomerID", customer_id) = 0) =>
        pc # "raised"

\* C8: every row of X_inference has input_dims columns, the dimensionality
\* the model was trained with, whatever the customer and the candidates;
\* there is one such row per candidate row.
C8_ColumnsMatchTraining ==
    pc = "encoded" =>
        /\ Len(X_inference) = Len(df_inference)
        /\ \A i \in 1..Len(X_inference) : Len(X_inference[i]) = input_dims

\* a feature matrix whose candidates leave out an item and a country of df
C8_Witness ==
    /\ pc = "encoded"
    /\ Len(X_inference) >= 1
    /\ StockCodesOf(df) \ Range(top_n_items) # {}
    /\ \E i \in 1..Len(df) : df[i].Country # df_inference[1].Country

\* C9: one feature row per candidate, in candidate order; each row carries
\* the given customer_id, a Country no other country beats among the
\* customer's rows of df, a Description no other description beats among
\* the rows of the candidate's StockCode, and a UnitPrice that df holds for
\* that StockCode.
C9_FeatureRows ==
    pc = "built" =>
        /\ Len(df_inference) = Len(top_n_items)
        /\ \A i \in 1..Len(df_inference) :
              LET r == df_inference[i] IN
              /\ r.StockCode = top_n_items[i]
              /\ r.CustomerID = customer_id
              /\ \A j \in 1..Len(df) :
                    RowsWhere(df, "CustomerID", customer_id, "Country", r.Country)
                    >= RowsWhere(df, "CustomerID", customer_id, "Country", df[j].Country)
              /\ RowsWhere(df, "CustomerID", customer_id, "Country", r.Country) > 0
              /\ \A j \in 1..Len(df) :
                    RowsWhere(df, "StockCode", r.StockCode, "Description", r.Description)
                    >= RowsWhere(df, "StockCode", r.StockCode, "Description", df[j].Description)
              /\ \E j \in 1..Len(df) :
                    /\ df[j].StockCode = r.StockCode
                    /\ df[j].UnitPrice = r.UnitPrice

\* two feature rows for a customer whose rows name two countries and an
\* item that df lists under two descriptions
C9_Witness ==
    /\ pc = "built"
    /\ Len(df_inference) >= 2
    /\ \E i, j \in 1..Len(df) :
          /\ df[i].CustomerID = customer_id
          /\ df[j].CustomerID = customer_id
          /\ df[i].Country # df[j].Country
    /\ \E i, j \in 1..Len(df) :
          /\ df[i].StockCode = df_inference[1].StockCode
          /\ df[j].StockCode = df_inference[1].StockCode
          /\ df[i].Description # df[j].Description

\* C10: the loop is left only with mp_status "Completed" or "Failed", no
\* query of the same execution follows the first one that returned such a
\* status, and once the registry reports one of them the loop terminates.
C10_PollTerminates ==
    /\ [](mp_pc = "done" => mp_status \in TerminalStatuses)
    /\ [][(mp_status \in TerminalStatuses /\ run' = run)
              => (mp_status' = mp_status)]_vars
    /\ (svc_status \in TerminalStatuses) ~> (mp_pc = "done")

\* the loop was left on "Failed"
C10_Witness ==
    /\ mp_pc = "done"
    /\ mp_status = "Failed"

(***************************************************************************)
(* The workflow                                                            *)
(***************************************************************************)
\* the stages as the platform holds them
TrainingCompleted == jobs_submitted >= 1 /\ job_status = "Completed"

LineageRegistered ==
    /\ artifacts = {"TrainingData", "TrainedModel"}
    /\ associations = {"TrainingData", "TrainedModel"}

PackageCreated == mp_arn \in packages /\ svc_status \in TerminalStatuses

\* the steps that issue the calls of a stage
IssuesDescribeJob == cell = "describe_job" /\ cell' # cell
IssuesLineage ==
    /\ cell \in {"data_artifact", "model_artifact", "associate"}
    /\ <<cell, assoc_i>>' # <<cell, assoc_i>>
IssuesCreatePackage == cell = "create_mp" /\ cell' # cell
IssuesApprove == cell = "poll" /\ cell' = "deploy"
IssuesDeploy == endpoint # "Creating" /\ endpoint' = "Creating"
IssuesPredict == pc = "encoded" /\ pc' = "returned"

\* C11: the calls of a stage are issued only when every earlier stage is
\* complete: the job is described and the lineage registered once the
\* training job has completed, the model package is created once both
\* artifacts and both associations exist, it is approved once its creation
\* has ended, the endpoint is deployed once the package is approved, and
\* predict is called once the endpoint is in service.
C11_StagesInOrder ==
    [][ /\ IssuesDescribeJob => TrainingCompleted
        /\ IssuesLineage => TrainingCompleted
        /\ IssuesCreatePackage => (TrainingCompleted /\ LineageRegistered)
        /\ IssuesApprove =>
              (TrainingCompleted /\ LineageRegistered /\ PackageCreated)
        /\ IssuesDeploy =>
              /\ TrainingCompleted /\ LineageRegistered /\ PackageCreated
              /\ approved_arn # 0
        /\ IssuesPredict =>
              /\ TrainingCompleted /\ LineageRegistered /\ PackageCreated
              /\ approved_arn # 0
              /\ endpoint = "InService" ]_vars

\* predict has answered at the end of the chain: job trained, lineage
\* registered, package created and approved, endpoint in service
C11_Witness ==
    /\ pc = "returned"
    /\ cell = "recs"
    /\ TrainingCompleted /\ LineageRegistered /\ PackageCreated
    /\ approved_arn # 0
    /\ endpoint = "InService"

\* C12: an artifact is created only for a source URI that has none listed,
\* and over all executions at most one artifact is created per source URI.
C12_OneArtifactPerUri ==
    /\ [](\A uri \in DOMAIN created : created[uri] <= 1)
    /\ [][\A uri \in DOMAIN created :
             (created'[uri] # created[uri]) => (uri \notin artifacts)]_vars

\* a later execution went through both artifact cells and used the
\* artifacts the first execution created
C12_Witness ==
    /\ run > 1
    /\ cell = "associate"
    /\ \A uri \in DOMAIN created : created[uri] = 1

\* the cells up to and including the association loop
CellsUpToLoop ==
    {"train", "fit", "describe_job", "data_artifact", "model_artifact",
     "associate"}

\* C13: whatever Association.create does for the other artifact, the loop
\* attempts the association of each artifact of artifact_list exactly once
\* in an execution, in order, and the execution goes on to the next cell:
\* no failure of Association.create ends it.
C13_BothAttemptedOnce ==
    /\ assoc_i >= 1 =>
          \A k \in 1..Len(ArtifactList) :
             assoc_attempts[ArtifactList[k]] = IF k < assoc_i THEN 1 ELSE 0
    /\ cell \notin CellsUpToLoop => assoc_i = Len(ArtifactList) + 1

\* a later execution has left the loop: both associations existed, so both
\* calls of Association.create raised
C13_Witness ==
    /\ run > 1
    /\ cell = "mpg"
    /\ associations = {"TrainingData", "TrainedModel"}
    /\ \A k \in 1..Len(ArtifactList) : assoc_attempts[ArtifactList[k]] = 1

\* C14: update_model_package is called only for a polling loop that ended
\* on "Completed", never for one that ended on "Failed".
C14_ApprovedOnlyWhenCompleted ==
    approved_arn # 0 => mp_status = "Completed"

\* C15: the package approved is the one this execution created, also when
\* the group holds packages of earlier executions (stated for an execution
\* whose package was completed).
C15_ApprovesCreatedPackage ==
    (approved_arn # 0 /\ mp_status = "Completed") => approved_arn = mp_arn

\* C16: an execution that starts with training_job_name restored submits
\* no training job and runs every later cell, the deployment included, as
\* the first execution did: no cell raises (stated for an execution whose
\* package was completed and is the one approved).
C16_StoredJobRunsThrough ==
    /\ jobs_submitted <= 1
    /\ ( /\ run > 1
         /\ training_job_name # 0
         /\ mp_status = "Completed"
         /\ approved_arn = mp_arn ) => cell # "failed"

====
